---- MODULE Spec2Model ----
(***************************************************************************)
(* Model of the alt-text tagging task (alt-text.js): startProcess reads    *)
(* the image manifest, asks the image generator for one description per    *)
(* reference, fills in defaults, and modifyPDF tags the document graph,    *)
(* asks the link generator for link descriptions, saves and uploads.       *)
(***************************************************************************)
EXTENDS Integers, Sequences, FiniteSets, TLC

\* ------------------------------------------------------------------ bounds
\* Object numbers of the document graph are 1..NumObjs.
NumObjs == 2
\* Longest manifest (rows of image_data).
MaxRefs == 2

ObjNums == 1..NumObjs
\* Ids a manifest row may carry: every object number and one id past the graph.
RefIds == 1..(NumObjs + 1)

\* ------------------------------------------------------------- text values
defaultText == "No text available"
ArtifactText == "artifact"
EmptyText == ""
SomeText == "a red bicycle"
LinkText == "Link to example.org"
EarlierLinkText == "Example website"
OldText == "old text"
ExampleUrl == "https://example.org"

\* Values the image generator's JSON may carry for a key.
ImageValues == {EmptyText, ArtifactText, SomeText}

\* --------------------------------------------------------- property names
\* The elements of an array.
Range(seq) == {seq[j] : j \in 1..Len(seq)}

\* A JS property name is a string of decimal digits, kept as a digit sequence.
\* String(n) for a non-negative integer n.
RECURSIVE Str(_)
Str(n) == IF n < 10 THEN <<n>> ELSE Str(n \div 10) \o <<n % 10>>

\* Number(key): the numeric value of a digit string ("05" -> 5).
RECURSIVE ToNumber(_)
ToNumber(key) ==
  IF Len(key) = 0 THEN 0
  ELSE 10 * ToNumber(SubSeq(key, 1, Len(key) - 1)) + key[Len(key)]

\* An integer-like property name: String(Number(key)) = key.
IsIndexKey(key) == Str(ToNumber(key)) = key

\* key == pdfRef.objectNumber (loose equality of a string and a number).
LooseEq(key, objectNumber) == ToNumber(key) = objectNumber

\* Keys the generator's JSON may use when asked about reference id: the id in
\* decimal, the id written with a leading zero, or the number after it.
ResponseKeys(id) == {Str(id), <<0>> \o Str(id), Str(id + 1)}

\* ------------------------------------------------------- JS object as map
\* An object is a sequence of <<key, value>> pairs in insertion order.
Keys(obj) == {obj[j][1] : j \in 1..Len(obj)}

hasOwnProperty(obj, key) == key \in Keys(obj)

\* obj[key], for a key the object has
Get(obj, key) == obj[CHOOSE j \in 1..Len(obj) : obj[j][1] = key][2]

\* obj[key] = value
SetProp(obj, key, value) ==
  IF hasOwnProperty(obj, key)
  THEN [j \in 1..Len(obj) |-> IF obj[j][1] = key THEN <<key, value>> ELSE obj[j]]
  ELSE Append(obj, <<key, value>>)

\* delete obj[key]
DeleteProp(obj, key) == SelectSeq(obj, LAMBDA e : e[1] # key)

\* Object.assign(target, source)
RECURSIVE ObjectAssign(_, _)
ObjectAssign(target, source) ==
  IF Len(source) = 0 THEN target
  ELSE ObjectAssign(SetProp(target, source[1][1], source[1][2]), Tail(source))

\* The integer-like entries of obj in ascending numeric order.
RECURSIVE SortIndexEntries(_)
SortIndexEntries(es) ==
  IF Len(es) = 0 THEN <<>>
  ELSE LET m == CHOOSE j \in 1..Len(es) :
                  \A k \in 1..Len(es) : ToNumber(es[j][1]) <= ToNumber(es[k][1])
       IN <<es[m]>> \o SortIndexEntries(SelectSeq(es, LAMBDA e : e[1] # es[m][1]))

\* Object.entries(obj): integer-like keys ascending, then the others in
\* insertion order.
ObjectEntries(obj) ==
  SortIndexEntries(SelectSeq(obj, LAMBDA e : IsIndexKey(e[1])))
    \o SelectSeq(obj, LAMBDA e : ~IsIndexKey(e[1]))

\* ------------------------------------------------------- document graph
\* An indirect object: a dictionary with entries, or another kind of object.
EmptyDict == [k \in {} |-> ""]

\* pdfObject.set(PDFName.of(name), value)
DictSet(d, name, value) ==
  [k \in (DOMAIN d) \cup {name} |-> IF k = name THEN value ELSE d[k]]

DictHas(d, name) == name \in DOMAIN d

FigureNode == [isDict |-> TRUE, entries |-> [S |-> "Figure"]]
FigureNodeWithAlt ==
  [isDict |-> TRUE, entries |-> [S |-> "Figure", Alt |-> OldText, Contents |-> OldText]]
LinkNode ==
  [isDict |-> TRUE, entries |-> [Type |-> "Annot", Subtype |-> "Link", A |-> ExampleUrl]]
LinkNodeNoUri == [isDict |-> TRUE, entries |-> [Type |-> "Annot", Subtype |-> "Link"]]
ParagraphNode == [isDict |-> TRUE, entries |-> [S |-> "P", Alt |-> OldText]]
StreamObject == [isDict |-> FALSE, entries |-> EmptyDict]

NodeKinds ==
  {FigureNode, FigureNodeWithAlt, LinkNode, LinkNodeNoUri, ParagraphNode, StreamObject}

\* Mutant of IsFigure: any structure element counts as a figure.
IsFigureAnyStructElem(node) == node.isDict /\ DictHas(node.entries, "S")

\* structType === '/Figure'
IsFigure(node) ==
  node.isDict /\ DictHas(node.entries, "S") /\ node.entries["S"] = "Figure"

\* Mutant of IsLinkWithUrl: a link annotation gets a request whether it has a
\* URL or not.
IsLinkAnnotation(node) ==
  /\ node.isDict
  /\ DictHas(node.entries, "Type") /\ node.entries["Type"] = "Annot"
  /\ DictHas(node.entries, "Subtype") /\ node.entries["Subtype"] = "Link"

\* Type /Annot, Subtype /Link with a truthy A.URI
IsLinkWithUrl(node) ==
  /\ node.isDict
  /\ DictHas(node.entries, "Type") /\ node.entries["Type"] = "Annot"
  /\ DictHas(node.entries, "Subtype") /\ node.entries["Subtype"] = "Link"
  /\ DictHas(node.entries, "A") /\ node.entries["A"] # ""

\* --------------------------------------------------------------- tagging
\* The body of Object.entries(zipped).forEach for one figure node: st carries
\* the node's dictionary and the result map.
ApplyEntry(st, e, objectNumber) ==
  IF LooseEq(e[1], objectNumber)
  THEN IF e[2] = ArtifactText
       THEN [st EXCEPT !.entries = DictSet(@, "S", "Artifact")]
       ELSE [entries |-> DictSet(DictSet(st.entries, "Alt", e[2]), "Contents", e[2]),
             zipped |-> DeleteProp(st.zipped, e[1])]
  ELSE st

RECURSIVE ApplyEntries(_, _, _)
ApplyEntries(es, st, objectNumber) ==
  IF Len(es) = 0 THEN st
  ELSE ApplyEntries(Tail(es), ApplyEntry(st, es[1], objectNumber), objectNumber)

\* Mutant of StoreNode: the changed dictionary is registered as a new object
\* and the old one is left as it was.
StoreNodeAsNewObject(g, n, entries) ==
  [k \in (DOMAIN g) \cup {NumObjs + 1} |->
     IF k = NumObjs + 1 THEN [isDict |-> TRUE, entries |-> entries] ELSE g[k]]

\* The node's dictionary after its entries were set in place: the object keeps
\* its number and the graph its objects.
StoreNode(g, n, entries) == [g EXCEPT ![n].entries = entries]

\* The forEach callback for one indirect object: figure matching, then the
\* link request. t carries the graph, the result map and the array of link
\* requests (linkProcessingPromises), one element per push.
VisitObject(t, n) ==
  LET node == t.graph[n]
      fig == IF IsFigure(node)
             THEN ApplyEntries(ObjectEntries(t.zipped),
                               [entries |-> node.entries, zipped |-> t.zipped], n)
             ELSE [entries |-> node.entries, zipped |-> t.zipped]
  IN IF ~node.isDict THEN t
     ELSE [graph |-> StoreNode(t.graph, n, fig.entries),
           zipped |-> fig.zipped,
           requested |-> IF IsLinkWithUrl([node EXCEPT !.entries = fig.entries])
                         THEN Append(t.requested, n)
                         ELSE t.requested]

\* enumerateIndirectObjects().forEach(...), in object-number order from n on.
RECURSIVE Traversal(_, _)
Traversal(t, n) ==
  IF n > Len(t.graph) THEN t ELSE Traversal(VisitObject(t, n), n + 1)

\* Mutant of ApplyLinkText: the callback sets Alt and leaves Contents.
ApplyLinkTextAltOnly(g, n, altText) ==
  StoreNode(g, n, DictSet(g[n].entries, "Alt", altText))

\* The .then callback of one link request on object n.
ApplyLinkText(g, n, altText) ==
  StoreNode(g, n, DictSet(DictSet(g[n].entries, "Alt", altText), "Contents", altText))

\* Mutant of PromiseAll: a failed request is not noticed, so the join stays
\* pending for ever once a request has failed.
PromiseAllIgnoresRejection(status) ==
  IF \E n \in DOMAIN status : status[n] \in {"pending", "failed"} THEN "pending"
  ELSE "resolved"

\* Mutant of PromiseAll: waits for every request and resolves even when one
\* of them failed (Promise.allSettled).
PromiseAllSettled(status) ==
  IF \E n \in DOMAIN status : status[n] = "pending" THEN "pending" ELSE "resolved"

\* Promise.all over the link requests: "pending", "resolved" or "rejected".
PromiseAll(status) ==
  IF \E n \in DOMAIN status : status[n] = "failed" THEN "rejected"
  ELSE IF \E n \in DOMAIN status : status[n] = "pending" THEN "pending"
  ELSE "resolved"

\* ------------------------------------------------------------- generation
\* Mutant of NeedsDefault: a truthiness test of combinedResults[id], which an
\* empty string fails as a missing entry does.
NeedsDefaultWhenFalsy(results, id) ==
  ~\E j \in 1..Len(results) : results[j][1] = Str(id) /\ results[j][2] # ""

\* !combinedResults.hasOwnProperty(imageObject.id)
NeedsDefault(results, id) == ~hasOwnProperty(results, Str(id))

\* The second loop of startProcess over imageObjects.
RECURSIVE FallbackLoop(_, _)
FallbackLoop(results, refs) ==
  IF Len(refs) = 0 THEN results
  ELSE FallbackLoop(
         IF NeedsDefault(results, refs[1]) THEN SetProp(results, Str(refs[1]), defaultText)
         ELSE results,
         Tail(refs))

\* JSON.parse(response) merged into combinedResults; a response that is not
\* JSON throws and leaves the map alone.
MergeResponse(results, response) ==
  IF response.json THEN ObjectAssign(results, response.obj) ELSE results

\* What the generator may answer when asked about reference id: one-entry
\* JSON objects, or text that is not JSON.
Responses(id) ==
  {[json |-> TRUE, obj |-> << <<k, v>> >>] : k \in ResponseKeys(id), v \in ImageValues}
    \cup {[json |-> FALSE, obj |-> <<>>]}

\* ------------------------------------------------------------------ state
VARIABLES
  dbRows,           \* input: the objid column of image_data, in row order
  input,            \* input: the document as stored under COMPLIANT_<name>
  pc,               \* where startProcess / modifyPDF stands
  imageObjects,     \* startProcess: the manifest read from the database
  idx,              \* startProcess: position of the for..of loop
  combinedResults,  \* startProcess: the result map (zipped in modifyPDF)
  imgPending,       \* image requests sent and not yet answered (by position)
  issued,           \* history: reference ids of the image requests, in order sent
  imgFailed,        \* history: positions whose fetch, request or parse failed
  generated,        \* history: the result map when the first loop ended
  resolved,         \* history: the result map handed to modifyPDF
  graph,            \* modifyPDF: pdfDoc's indirect objects
  linkProcessingPromises, \* modifyPDF: objects of the link requests, in push order
  linkStatus,       \* modifyPDF: link request per object: pending/applied/failed
  files,            \* local scratch files that exist
  saved,            \* documents written by pdfDoc.save(), in order
  uploads,          \* history: number of PutObject calls sent
  published,        \* documents stored under FINAL_<name>, in order
  log,              \* messages reported so far
  failures,         \* history: kinds of failure that happened
  timeline,         \* history: the steps of the run, in the order they happened
  exitCode          \* <<>> while running, then <<the process's exit code>>

\* The merger Lambda (App.java).
VARIABLES
  fileNames,        \* input: the "fileNames" list of the request, or Null
  bucket,           \* the keys of the bucket that hold a document
  mPc,              \* where handleRequest stands
  modifiedPdfKeys,  \* handleRequest: the keys it downloads
  mIdx,             \* handleRequest: position of the download loop
  tmpFiles,         \* /tmp: file name -> the key its content was downloaded from
  mergedFile,       \* /tmp/merged_<base>: the keys whose documents it concatenates
  merged,           \* the bucket's merged documents, in the order uploaded
  mResult,          \* <<>> while running, then <<the returned message>>
  s3Calls,          \* history: number of getObject and putObject calls
  mFailures         \* history: kinds of failure that happened

\* The deployment scripts.
VARIABLES
  script,           \* which script runs
  dPc,              \* where the script stands
  builds,           \* number of the build being monitored
  BUILD_STATUS,     \* the status last polled, "" before the first poll
  LAST_STATUS,      \* the status last reported, "" at the start of a loop
  DOTS,             \* the progress counter of the polling loop
  polled,           \* history: per build, the statuses polled so far
  printed,          \* messages printed so far
  uiTempDir,        \* deploy_ui: whether $UI_TEMP_DIR exists
  dExit             \* <<>> while running, then <<the script's exit code>>

taggerVars == <<dbRows, input, pc, imageObjects, idx, combinedResults, imgPending,
                issued, imgFailed, generated, resolved, graph, linkStatus, files, saved,
                uploads, published, log, failures, exitCode, linkProcessingPromises,
                timeline>>

mergerVars == <<fileNames, bucket, mPc, modifiedPdfKeys, mIdx, tmpFiles, mergedFile,
                merged, mResult, s3Calls, mFailures>>

deployVars == <<script, dPc, builds, BUILD_STATUS, LAST_STATUS, DOTS, polled, printed, uiTempDir,
                dExit>>

vars == <<taggerVars, mergerVars, deployVars>>

\* A list that is absent: told apart from every list of keys.
Null == <<<<"null">>>>

\* The merger and the scripts before they are started.
MergerIdle ==
  /\ fileNames = Null
  /\ bucket = {}
  /\ mPc = "idle"
  /\ modifiedPdfKeys = <<>>
  /\ mIdx = 1
  /\ tmpFiles = {}
  /\ mergedFile = <<>>
  /\ merged = <<>>
  /\ mResult = <<>>
  /\ s3Calls = 0
  /\ mFailures = {}

DeployIdle ==
  /\ script = ""
  /\ dPc = "idle"
  /\ builds = 0
  /\ BUILD_STATUS = ""
  /\ LAST_STATUS = ""
  /\ DOTS = 0
  /\ polled = [b \in 1..2 |-> {}]
  /\ printed = {}
  /\ uiTempDir = FALSE
  /\ dExit = <<>>

\* exitCode while the process runs; <<code>> once it has ended.
Running == <<>>

DbFile == <<"temp_images_data.db", 0>>
ImageFile(j) == <<"image", j>>
DownloadFile == <<"COMPLIANT.pdf", 0>>
ModifiedFile == <<"modified_COMPLIANT.pdf", 0>>

\* Manifests: rows with pairwise distinct ids, at most MaxRefs of them.
Manifests ==
  {m \in UNION {[1..len -> RefIds] : len \in 0..MaxRefs} :
     \A a, b \in DOMAIN m : a # b => m[a] # m[b]}

Init ==
  /\ dbRows \in Manifests
  /\ input \in [ObjNums -> NodeKinds]
  /\ pc = "read_manifest"
  /\ imageObjects = <<>>
  /\ idx = 1
  /\ combinedResults = <<>>
  /\ imgPending = {}
  /\ issued = <<>>
  /\ imgFailed = {}
  /\ generated = <<>>
  /\ resolved = <<>>
  /\ graph = input
  /\ linkProcessingPromises = <<>>
  /\ linkStatus = [n \in {} |-> "pending"]
  /\ files = {}
  /\ saved = <<>>
  /\ uploads = 0
  /\ published = <<>>
  /\ log = {}
  /\ failures = {}
  /\ timeline = <<>>
  /\ exitCode = Running
  /\ MergerIdle
  /\ DeployIdle

\* The catch block of startProcess: report and process.exit(1).
OuterCatch ==
  /\ log' = log \cup {"Error in second ECS task"}
  /\ exitCode' = <<1>>
  /\ pc' = "exited"

\* startProcess up to the first loop: download the manifest database, open
\* it and query image_data.
ReadManifest ==
  /\ pc = "read_manifest"
  /\ \E outcome \in {"ok", "get_failed", "open_failed", "query_failed"} :
       \/ /\ outcome = "get_failed"
          /\ failures' = failures \cup {"manifest_download"}
          /\ OuterCatch
          /\ UNCHANGED <<files, imageObjects>>
       \/ /\ outcome = "open_failed"
          /\ files' = files \cup {DbFile}
          /\ failures' = failures \cup {"manifest_open"}
          /\ OuterCatch
          /\ UNCHANGED imageObjects
       \/ /\ outcome = "query_failed"
          /\ files' = files \cup {DbFile}
          /\ failures' = failures \cup {"manifest_query"}
          /\ imageObjects' = <<>>
          /\ pc' = "image_loop"
          /\ UNCHANGED <<log, exitCode>>
       \/ /\ outcome = "ok"
          /\ files' = files \cup {DbFile}
          /\ imageObjects' = dbRows
          /\ pc' = "image_loop"
          /\ UNCHANGED <<log, exitCode, failures>>
  /\ UNCHANGED <<linkProcessingPromises, timeline, dbRows, input, idx, combinedResults, imgPending, issued,
                 imgFailed, generated, resolved, graph, linkStatus, saved, uploads,
                 published>>
  /\ UNCHANGED <<mergerVars, deployVars>>

\* Mutant of LoopDone: the loop leaves out the last reference.
LoopDoneBeforeLast(j, refs) == j >= Len(refs)

\* for (const imageObject of imageObjects) is over when the position is past
\* the last element.
LoopDone(j, refs) == j > Len(refs)

\* Mutant of NextPosition: the loop stays on a reference and asks again.
SamePosition(j) == j

\* Position of the loop after one iteration.
NextPosition(j) == j + 1

\* Mutant of AfterAttempt: the delay sits inside the try block, so a failed
\* attempt goes straight on to the next iteration.
AfterAttemptDelayInTry(failed) == IF failed THEN "image_loop" ELSE "image_sleep"

\* Where the loop stands once the try/catch of an iteration is over, whether
\* the catch block ran or not: at the await sleep(5000) that follows it.
AfterAttempt(failed) == "image_sleep"

\* The try/catch of one iteration is over.
EndAttempt(failed) ==
  /\ pc' = AfterAttempt(failed)
  /\ idx' = IF AfterAttempt(failed) = "image_sleep" THEN idx ELSE NextPosition(idx)

\* One iteration of the first loop up to the generator call: fetch the image
\* payload, write it to disk and send the request.
FetchImage ==
  /\ pc = "image_loop"
  /\ ~LoopDone(idx, imageObjects)
  /\ timeline' = Append(timeline, "attempt")
  /\ \E ok \in BOOLEAN :
       IF ok
       THEN /\ files' = files \cup {ImageFile(idx)}
            /\ imgPending' = imgPending \cup {idx}
            /\ issued' = Append(issued, imageObjects[idx])
            /\ pc' = "image_wait"
            /\ UNCHANGED <<imgFailed, failures, idx>>
       ELSE /\ imgFailed' = imgFailed \cup {idx}
            /\ failures' = failures \cup {"image"}
            /\ EndAttempt(TRUE)
            /\ UNCHANGED <<files, imgPending, issued>>
  /\ UNCHANGED <<dbRows, input, imageObjects, combinedResults, generated, resolved,
                 graph, linkProcessingPromises, linkStatus, saved, uploads, published,
                 log, exitCode>>
  /\ UNCHANGED <<mergerVars, deployVars>>

\* The generator answers (or fails); the answer is parsed and merged.
ImageResponse ==
  /\ pc = "image_wait"
  /\ idx \in imgPending
  /\ imgPending' = imgPending \ {idx}
  /\ \/ /\ imgFailed' = imgFailed \cup {idx}
        /\ failures' = failures \cup {"image"}
        /\ EndAttempt(TRUE)
        /\ UNCHANGED combinedResults
     \/ \E response \in Responses(imageObjects[idx]) :
          /\ combinedResults' = MergeResponse(combinedResults, response)
          /\ imgFailed' = IF response.json THEN imgFailed ELSE imgFailed \cup {idx}
          /\ failures' = IF response.json THEN failures ELSE failures \cup {"image"}
          /\ EndAttempt(~response.json)
  /\ UNCHANGED <<dbRows, input, imageObjects, issued, generated, resolved, graph,
                 linkProcessingPromises, linkStatus, files, saved, uploads, published,
                 log, exitCode, timeline>>
  /\ UNCHANGED <<mergerVars, deployVars>>

\* await sleep(5000), then the next iteration.
Sleep ==
  /\ pc = "image_sleep"
  /\ idx' = NextPosition(idx)
  /\ pc' = "image_loop"
  /\ timeline' = Append(timeline, "sleep")
  /\ UNCHANGED <<dbRows, input, imageObjects, combinedResults, imgPending,
                 issued, imgFailed, generated, resolved, graph, linkProcessingPromises,
                 linkStatus, files, saved, uploads, published, log, failures, exitCode>>
  /\ UNCHANGED <<mergerVars, deployVars>>

\* The first loop is over: the default-text loop runs, the result map is
\* logged and modifyPDF is called.
Fallback ==
  /\ pc = "image_loop"
  /\ LoopDone(idx, imageObjects)
  /\ generated' = combinedResults
  /\ combinedResults' = FallbackLoop(combinedResults, imageObjects)
  /\ resolved' = combinedResults'
  /\ log' = log \cup {"Combined Results", "zipped"}
  /\ timeline' = Append(timeline, "fallback")
  /\ pc' = "modify_download"
  /\ UNCHANGED <<dbRows, input, imageObjects, idx, imgPending, issued,
                 imgFailed, graph, linkProcessingPromises, linkStatus, files, saved,
                 uploads, published, failures, exitCode>>
  /\ UNCHANGED <<mergerVars, deployVars>>

\* ---------------------------------------------------------------- modifyPDF
\* Mutant of ModifyCatch: after a failed PutObject the catch block goes back
\* to save and send the document again.
ModifyCatchRetriesUpload ==
  /\ log' = log \cup {"Error processing PDF"}
  /\ pc' = IF pc = "modify_upload" THEN "modify_join" ELSE "after_modify"

\* The catch block of modifyPDF: report on the console and return normally.
ModifyCatch ==
  /\ log' = log \cup {"Error processing PDF"}
  /\ pc' = "after_modify"

\* Step 1 and 2: download the document to /tmp and load it.
DownloadDocument ==
  /\ pc = "modify_download"
  /\ \E outcome \in {"ok", "get_failed", "stream_failed"} :
       \/ /\ outcome = "ok"
          /\ files' = files \cup {DownloadFile}
          /\ graph' = input
          /\ pc' = "modify_traverse"
          /\ UNCHANGED <<log, failures>>
       \/ /\ outcome = "get_failed"
          /\ failures' = failures \cup {"download"}
          /\ ModifyCatch
          /\ UNCHANGED <<files, graph>>
       \/ /\ outcome = "stream_failed"
          /\ files' = files \cup {DownloadFile}
          /\ failures' = failures \cup {"download"}
          /\ ModifyCatch
          /\ UNCHANGED graph
  /\ UNCHANGED <<linkProcessingPromises, timeline, dbRows, input, imageObjects, idx, combinedResults, imgPending,
                 issued, imgFailed, generated, resolved, linkStatus, saved, uploads,
                 published, exitCode>>
  /\ UNCHANGED <<mergerVars, deployVars>>

\* Mutant of Traverse: entries left in the result map after the pass are an
\* error that ends modifyPDF in its catch block.
TraverseThrowsOnLeftover ==
  /\ pc = "modify_traverse"
  /\ \E t \in {Traversal([graph |-> graph, zipped |-> combinedResults,
                           requested |-> linkProcessingPromises], 1)} :
        /\ graph' = t.graph
        /\ combinedResults' = t.zipped
        /\ linkProcessingPromises' = t.requested
        /\ linkStatus' = [n \in Range(t.requested) |-> "pending"]
        /\ IF t.zipped = <<>>
           THEN pc' = "modify_join" /\ UNCHANGED log
           ELSE ModifyCatch
  /\ timeline' = Append(timeline, "traverse")
  /\ UNCHANGED <<dbRows, input, imageObjects, idx, imgPending, issued,
                 imgFailed, generated, resolved, files, saved, uploads, published,
                 failures, exitCode>>
  /\ UNCHANGED <<mergerVars, deployVars>>

\* The single pass over the indirect objects: figures are tagged from the
\* result map and one request is sent per link with a URL.
Traverse ==
  /\ pc = "modify_traverse"
  /\ \E t \in {Traversal([graph |-> graph, zipped |-> combinedResults,
                           requested |-> linkProcessingPromises], 1)} :
        /\ graph' = t.graph
        /\ combinedResults' = t.zipped
        /\ linkProcessingPromises' = t.requested
        /\ linkStatus' = [n \in Range(t.requested) |-> "pending"]
  /\ timeline' = Append(timeline, "traverse")
  /\ pc' = "modify_join"
  /\ UNCHANGED <<dbRows, input, imageObjects, idx, imgPending, issued,
                 imgFailed, generated, resolved, files, saved, uploads, published, log,
                 failures, exitCode>>
  /\ UNCHANGED <<mergerVars, deployVars>>

\* One link request settles. While modifyPDF waits on Promise.all this is the
\* only thing that can run; after a rejection the remaining requests settle
\* once startProcess has returned.
LinkResponse ==
  /\ \/ pc = "modify_join" /\ PromiseAll(linkStatus) = "pending"
     \/ pc = "returned"
  /\ \E n \in DOMAIN linkStatus :
       /\ linkStatus[n] = "pending"
       /\ \/ /\ graph' = ApplyLinkText(graph, n, LinkText)
             /\ linkStatus' = [linkStatus EXCEPT ![n] = "applied"]
             /\ UNCHANGED failures
          \/ /\ linkStatus' = [linkStatus EXCEPT ![n] = "failed"]
             /\ failures' = failures \cup {"link"}
             /\ UNCHANGED graph
  /\ UNCHANGED <<linkProcessingPromises, timeline, dbRows, input, pc, imageObjects, idx, combinedResults,
                 imgPending, issued, imgFailed, generated, resolved, files, saved,
                 uploads, published, log, exitCode>>
  /\ UNCHANGED <<mergerVars, deployVars>>

\* Promise.all resolved: step 3 saves the document to /tmp and step 4 sends
\* the PutObject.
Save ==
  /\ pc = "modify_join"
  /\ PromiseAll(linkStatus) = "resolved"
  /\ \E ok \in BOOLEAN :
       IF ok
       THEN /\ saved' = Append(saved, graph)
            /\ files' = files \cup {ModifiedFile}
            /\ uploads' = uploads + 1
            /\ timeline' = timeline \o <<"join", "save", "upload">>
            /\ pc' = "modify_upload"
            /\ UNCHANGED <<log, failures>>
       ELSE /\ failures' = failures \cup {"write"}
            /\ timeline' = Append(timeline, "join")
            /\ ModifyCatch
            /\ UNCHANGED <<saved, files, uploads>>
  /\ UNCHANGED <<linkProcessingPromises, dbRows, input, imageObjects, idx, combinedResults, imgPending,
                 issued, imgFailed, generated, resolved, graph, linkStatus, published,
                 exitCode>>
  /\ UNCHANGED <<mergerVars, deployVars>>

\* Promise.all rejected: control goes to the catch block.
JoinRejected ==
  /\ pc = "modify_join"
  /\ PromiseAll(linkStatus) = "rejected"
  /\ timeline' = Append(timeline, "join")
  /\ ModifyCatch
  /\ UNCHANGED <<linkProcessingPromises, dbRows, input, imageObjects, idx, combinedResults, imgPending,
                 issued, imgFailed, generated, resolved, graph, linkStatus, files, saved,
                 uploads, published, failures, exitCode>>
  /\ UNCHANGED <<mergerVars, deployVars>>

\* The PutObject settles; on success the two /tmp files are removed.
UploadDone ==
  /\ pc = "modify_upload"
  /\ \E ok \in BOOLEAN :
       IF ok
       THEN /\ published' = Append(published, saved[Len(saved)])
            /\ log' = log \cup {"Output saved"}
            /\ files' = files \ {DownloadFile, ModifiedFile}
            /\ pc' = "after_modify"
            /\ UNCHANGED failures
       ELSE /\ failures' = failures \cup {"upload"}
            /\ ModifyCatch
            /\ UNCHANGED <<published, files>>
  /\ UNCHANGED <<linkProcessingPromises, timeline, dbRows, input, imageObjects, idx, combinedResults, imgPending,
                 issued, imgFailed, generated, resolved, graph, linkStatus, saved,
                 uploads, exitCode>>
  /\ UNCHANGED <<mergerVars, deployVars>>

\* modifyPDF has returned to startProcess, which reports completion.
AfterModify ==
  /\ pc = "after_modify"
  /\ log' = log \cup {"PDF modification complete"}
  /\ pc' = "returned"
  /\ UNCHANGED <<linkProcessingPromises, timeline, dbRows, input, imageObjects, idx, combinedResults, imgPending,
                 issued, imgFailed, generated, resolved, graph, linkStatus, files, saved,
                 uploads, published, failures, exitCode>>
  /\ UNCHANGED <<mergerVars, deployVars>>

\* startProcess has returned and nothing is pending: the process ends with 0.
Exit ==
  /\ pc = "returned"
  /\ \A n \in DOMAIN linkStatus : linkStatus[n] # "pending"
  /\ exitCode' = <<0>>
  /\ pc' = "exited"
  /\ UNCHANGED <<linkProcessingPromises, timeline, dbRows, input, imageObjects, idx, combinedResults, imgPending,
                 issued, imgFailed, generated, resolved, graph, linkStatus, files, saved,
                 uploads, published, log, failures>>
  /\ UNCHANGED <<mergerVars, deployVars>>

Next ==
  \/ ReadManifest
  \/ FetchImage
  \/ ImageResponse
  \/ Sleep
  \/ Fallback
  \/ DownloadDocument
  \/ Traverse
  \/ LinkResponse
  \/ Save
  \/ JoinRejected
  \/ UploadDone
  \/ AfterModify
  \/ Exit

Spec == Init /\ [][Next]_vars

\* The steps that wait for an external call or for the event loop.
Scheduled ==
  \/ ReadManifest
  \/ FetchImage
  \/ ImageResponse
  \/ Sleep
  \/ Fallback
  \/ DownloadDocument
  \/ LinkResponse
  \/ Save
  \/ JoinRejected
  \/ UploadDone
  \/ AfterModify
  \/ Exit

\* The synchronous traversal runs to its end: it is the one step that takes
\* modifyPDF from the loaded document to the join.
TraversalCompletes == pc = "modify_traverse" /\ pc' = "modify_join"

\* The run under the assumption that every external call returns or fails
\* and the event loop runs whatever is ready.
FairSpec ==
  Init /\ [][Next]_vars /\ WF_vars(Scheduled) /\ WF_pc(TraversalCompletes)

\* ------------------------------------------------- the four-figure document
\* A document of eleven objects whose figure nodes are objects 5, 7, 9 and
\* 11, each with or without alternative text of its own, and no link.
ScenarioFigures == {5, 7, 9, 11}

ScenarioGraphs ==
  {g \in [1..11 -> {FigureNode, FigureNodeWithAlt, ParagraphNode, StreamObject}] :
     /\ \A n \in ScenarioFigures : g[n] \in {FigureNode, FigureNodeWithAlt}
     /\ g[1] = ParagraphNode
     /\ \A n \in (2..11) \ ScenarioFigures : g[n] = StreamObject}

\* Its manifest names 5, 7 and 9, in either row order.
ScenarioManifests == {<<5, 7, 9>>, <<9, 7, 5>>}

InitScenario ==
  /\ dbRows \in ScenarioManifests
  /\ input \in ScenarioGraphs
  /\ pc = "read_manifest"
  /\ imageObjects = <<>>
  /\ idx = 1
  /\ combinedResults = <<>>
  /\ imgPending = {}
  /\ issued = <<>>
  /\ imgFailed = {}
  /\ generated = <<>>
  /\ resolved = <<>>
  /\ graph = input
  /\ linkProcessingPromises = <<>>
  /\ linkStatus = [n \in {} |-> "pending"]
  /\ files = {}
  /\ saved = <<>>
  /\ uploads = 0
  /\ published = <<>>
  /\ log = {}
  /\ failures = {}
  /\ timeline = <<>>
  /\ exitCode = Running
  /\ MergerIdle
  /\ DeployIdle

\* The steps of Next that a document without links leaves enabled.
NextScenario ==
  \/ ReadManifest
  \/ FetchImage
  \/ ImageResponse
  \/ Sleep
  \/ Fallback
  \/ DownloadDocument
  \/ Traverse
  \/ Save
  \/ UploadDone
  \/ AfterModify
  \/ Exit

SpecScenario == InitScenario /\ [][NextScenario]_vars

\* ------------------------------------------------------ a second tagging pass
\* The graph once every link request of a traversal was answered with altText.
RECURSIVE ApplyLinkTexts(_, _, _)
ApplyLinkTexts(g, requested, altText) ==
  IF Len(requested) = 0 THEN g
  ELSE ApplyLinkTexts(ApplyLinkText(g, requested[1], altText), Tail(requested), altText)

\* One complete tagging pass of modifyPDF over graph g with result map zipped,
\* the link generator answering altText.
TaggingPass(g, zipped, altText) ==
  LET t == Traversal([graph |-> g, zipped |-> zipped, requested |-> <<>>], 1)
  IN ApplyLinkTexts(t.graph, t.requested, altText)

\* Result maps of a first pass: empty, or one entry under a reference's id.
FirstPassMaps ==
  {<<>>} \cup {<< <<Str(id), v>> >> : id \in ObjNums, v \in ImageValues \cup {defaultText}}

\* The documents a first pass publishes.
FirstPassOutputs ==
  {TaggingPass(g, zipped, altText) :
     g \in [ObjNums -> NodeKinds], zipped \in FirstPassMaps,
     altText \in {LinkText, EarlierLinkText}}

\* The task runs again on a document that a first pass published, with an
\* empty manifest and so an empty result map.
InitRerun ==
  /\ dbRows = <<>>
  /\ input \in FirstPassOutputs
  /\ pc = "read_manifest"
  /\ imageObjects = <<>>
  /\ idx = 1
  /\ combinedResults = <<>>
  /\ imgPending = {}
  /\ issued = <<>>
  /\ imgFailed = {}
  /\ generated = <<>>
  /\ resolved = <<>>
  /\ graph = input
  /\ linkProcessingPromises = <<>>
  /\ linkStatus = [n \in {} |-> "pending"]
  /\ files = {}
  /\ saved = <<>>
  /\ uploads = 0
  /\ published = <<>>
  /\ log = {}
  /\ failures = {}
  /\ timeline = <<>>
  /\ exitCode = Running
  /\ MergerIdle
  /\ DeployIdle

\* The steps of Next that an empty manifest leaves enabled.
NextRerun ==
  \/ ReadManifest
  \/ Fallback
  \/ DownloadDocument
  \/ Traverse
  \/ LinkResponse
  \/ Save
  \/ JoinRejected
  \/ UploadDone
  \/ AfterModify
  \/ Exit

SpecRerun == InitRerun /\ [][NextRerun]_vars

\* ------------------------------------------------------------ the merger
\* The tagging task before it is started.
TaggerIdle ==
  /\ dbRows = <<>>
  /\ input = [n \in ObjNums |-> StreamObject]
  /\ pc = "read_manifest"
  /\ imageObjects = <<>>
  /\ idx = 1
  /\ combinedResults = <<>>
  /\ imgPending = {}
  /\ issued = <<>>
  /\ imgFailed = {}
  /\ generated = <<>>
  /\ resolved = <<>>
  /\ graph = input
  /\ linkProcessingPromises = <<>>
  /\ linkStatus = [n \in {} |-> "pending"]
  /\ files = {}
  /\ saved = <<>>
  /\ uploads = 0
  /\ published = <<>>
  /\ log = {}
  /\ failures = {}
  /\ timeline = <<>>
  /\ exitCode = Running

\* Longest "fileNames" list of a request.
MaxFiles == 2

\* An object key is the sequence of its "/"-separated segments; the last one
\* is the file name.
ChunkKeys ==
  {<<"temp", "doc", "doc_chunk_1.pdf">>, <<"temp", "doc", "doc_chunk_2.pdf">>,
   <<"temp", "other", "doc_chunk_1.pdf">>, <<"uploads", "doc", "doc_chunk_1.pdf">>,
   <<"doc_chunk_1.pdf">>}

\* "FINAL_" + fileName
Final(fileName) ==
  CASE fileName = "doc_chunk_1.pdf" -> "FINAL_doc_chunk_1.pdf"
    [] fileName = "doc_chunk_2.pdf" -> "FINAL_doc_chunk_2.pdf"

\* key.substring(key.lastIndexOf('/') + 1), path.basename(key)
FileNameOf(key) == key[Len(key)]

\* The key handleRequest derives for a listed key.
ModifiedKey(key) ==
  IF Len(key) > 1
    THEN SubSeq(key, 1, Len(key) - 1) \o <<Final(FileNameOf(key))>>
    ELSE <<Final(key[1])>>

\* The key the tagging task uploads to when started with S3_FILE_KEY = key.
TaggerUploadKey(key) ==
  LET filebasename == IF Len(key) >= 2 THEN key[2] ELSE "undefined"
  IN <<"temp", filebasename, Final(FileNameOf(key))>>

\* The requests: no list, the empty list, or up to MaxFiles keys.
Requests ==
  {Null} \cup UNION {[1..n -> ChunkKeys] : n \in 0..MaxFiles}

Listed(names) == IF names = Null THEN {} ELSE Range(names)

\* The bucket holds what the tagging tasks of some of the listed chunks uploaded.
InitMerger ==
  /\ fileNames \in Requests
  /\ \E tagged \in SUBSET Listed(fileNames) :
       bucket = {TaggerUploadKey(key) : key \in tagged}
  /\ mPc = "start"
  /\ modifiedPdfKeys = <<>>
  /\ mIdx = 1
  /\ tmpFiles = {}
  /\ mergedFile = <<>>
  /\ merged = <<>>
  /\ mResult = <<>>
  /\ s3Calls = 0
  /\ mFailures = {}
  /\ DeployIdle
  /\ TaggerIdle

\* catch (Exception e): the failure message is returned.
MergerCatchReturnsSuccess(kind) ==
  /\ mFailures' = mFailures \cup {kind}
  /\ mResult' = <<"PDFs merged successfully.">>
  /\ mPc' = "returned"

MergerCatch(kind) ==
  /\ mFailures' = mFailures \cup {kind}
  /\ mResult' = <<"Failed to merge PDFs.">>
  /\ mPc' = "returned"

\* handleRequest up to the try block.
HandleRequest ==
  /\ mPc = "start"
  /\ IF fileNames = Null \/ fileNames = <<>>
       THEN /\ mResult' = <<"No files to merge.">>
            /\ mPc' = "returned"
            /\ UNCHANGED modifiedPdfKeys
       ELSE /\ modifiedPdfKeys' = [i \in 1..Len(fileNames) |-> ModifiedKey(fileNames[i])]
            /\ mPc' = "download"
            /\ UNCHANGED mResult
  /\ UNCHANGED <<fileNames, bucket, mIdx, tmpFiles, mergedFile, merged, s3Calls,
                 mFailures>>
  /\ UNCHANGED <<taggerVars, deployVars>>

\* /tmp after a download: one file per file name.
WriteLocalFile(tmp, key) ==
  {f \in tmp : f[1] # FileNameOf(key)} \cup {<<FileNameOf(key), key>>}

\* One turn of the download loop: getObject succeeds only for a key of the
\* bucket, and may fail for any key.
DownloadPDF ==
  /\ mPc = "download"
  /\ s3Calls' = s3Calls + 1
  /\ LET key == modifiedPdfKeys[mIdx]
     IN \/ /\ key \in bucket
           /\ tmpFiles' = WriteLocalFile(tmpFiles, key)
           /\ mIdx' = mIdx + 1
           /\ mPc' = IF mIdx = Len(modifiedPdfKeys) THEN "merge" ELSE "download"
           /\ UNCHANGED <<mResult, mFailures>>
        \/ /\ MergerCatch("download")
           /\ UNCHANGED <<tmpFiles, mIdx>>
  /\ UNCHANGED <<fileNames, bucket, modifiedPdfKeys, mergedFile, merged>>
  /\ UNCHANGED <<taggerVars, deployVars>>

\* The documents mergePDFs adds, in the order of the keys: the local file named
\* after each key, when it exists.
RECURSIVE Sources(_, _)
Sources(keys, tmp) ==
  IF keys = <<>> THEN <<>>
  ELSE LET local == {f \in tmp : f[1] = FileNameOf(Head(keys))}
       IN (IF local = {} THEN <<>> ELSE <<(CHOOSE f \in local : TRUE)[2]>>)
          \o Sources(Tail(keys), tmp)

MergePDFs ==
  /\ mPc = "merge"
  /\ \/ /\ mergedFile' = Sources(modifiedPdfKeys, tmpFiles)
        /\ mPc' = "upload"
        /\ UNCHANGED <<mResult, mFailures>>
     \/ /\ MergerCatch("merge")
        /\ UNCHANGED mergedFile
  /\ UNCHANGED <<fileNames, bucket, modifiedPdfKeys, mIdx, tmpFiles, merged, s3Calls>>
  /\ UNCHANGED <<taggerVars, deployVars>>

UploadPDF ==
  /\ mPc = "upload"
  /\ s3Calls' = s3Calls + 1
  /\ \/ /\ merged' = Append(merged, mergedFile)
        /\ mPc' = "uploaded"
        /\ UNCHANGED <<mResult, mFailures>>
     \/ /\ MergerCatch("upload")
        /\ UNCHANGED merged
  /\ UNCHANGED <<fileNames, bucket, modifiedPdfKeys, mIdx, tmpFiles, mergedFile>>
  /\ UNCHANGED <<taggerVars, deployVars>>

ReturnSuccess ==
  /\ mPc = "uploaded"
  /\ mResult' = <<"PDFs merged successfully.">>
  /\ mPc' = "returned"
  /\ UNCHANGED <<fileNames, bucket, modifiedPdfKeys, mIdx, tmpFiles, mergedFile,
                 merged, s3Calls, mFailures>>
  /\ UNCHANGED <<taggerVars, deployVars>>

NextMerger ==
  \/ HandleRequest
  \/ DownloadPDF
  \/ MergePDFs
  \/ UploadPDF
  \/ ReturnSuccess

SpecMerger == InitMerger /\ [][NextMerger]_vars

\* ----------------------------------------------------- deployment scripts
Scripts == {"deploy.sh", "pdf2html/deploy.sh", "part_002", "part_003"}

\* [ $DOTS -eq 60 ]
DotsLimit == 60

\* What batch-get-builds can print as the build status.
BuildStatuses ==
  {"SUCCEEDED", "FAILED", "FAULT", "STOPPED", "TIMED_OUT", "IN_PROGRESS", "None"}

\* The exit status of an aws command that failed.
AwsErrorCodes == {254, 255}

\* The branch of "case $BUILD_STATUS in" the status selects.
CaseBranchTimedOutWaits(status) ==
  CASE status = "SUCCEEDED" -> "succeeded"
    [] status \in {"FAILED", "FAULT", "STOPPED"} -> "failed"
    [] status = "IN_PROGRESS" -> "in_progress"
    [] OTHER -> "other"

CaseBranch(status) ==
  CASE status = "SUCCEEDED" -> "succeeded"
    [] status \in {"FAILED", "FAULT", "STOPPED", "TIMED_OUT"} -> "failed"
    [] status = "IN_PROGRESS" -> "in_progress"
    [] OTHER -> "other"

\* The scripts that report a change of status.
ShowsStatusChange == Scripts \ {"part_003"}

\* A script stands before "DOTS=0" of its first polling loop.
InitDeploy ==
  /\ script \in Scripts
  /\ dPc = "poll"
  /\ builds = 1
  /\ BUILD_STATUS = ""
  /\ LAST_STATUS = ""
  /\ DOTS = 0
  /\ polled = [b \in 1..2 |-> {}]
  /\ printed = {}
  /\ uiTempDir = FALSE
  /\ dExit = <<>>
  /\ MergerIdle
  /\ TaggerIdle

\* set -e: a failing command ends the script with that command's status.
Errexit(code) ==
  /\ dExit' = <<code>>
  /\ dPc' = "exited"

\* One turn of "while true": the poll, the report of a changed status, and the
\* selected branch of the case statement.
Poll ==
  /\ dPc = "poll"
  /\ \/ \E status \in BuildStatuses :
          LET changed == script \in ShowsStatusChange /\ status # LAST_STATUS
              dots == IF changed THEN 0 ELSE DOTS
              branch == CaseBranch(status)
          IN /\ BUILD_STATUS' = status
             /\ LAST_STATUS' = IF changed THEN status ELSE LAST_STATUS
             /\ polled' = [polled EXCEPT ![builds] = @ \cup {status}]
             /\ CASE branch = "succeeded" ->
                       /\ printed' = printed \cup {"completed successfully"}
                       /\ dPc' = "after_loop"
                       /\ DOTS' = dots
                       /\ UNCHANGED dExit
                  [] branch = "failed" ->
                       /\ printed' = printed \cup {"Deployment failed with status"}
                       /\ DOTS' = dots
                       /\ IF script = "pdf2html/deploy.sh"
                            THEN dPc' = "after_loop" /\ UNCHANGED dExit
                            ELSE Errexit(1)
                  [] branch = "in_progress" ->
                       /\ DOTS' = IF dots + 1 = DotsLimit THEN 0 ELSE dots + 1
                       /\ printed' = IF dots + 1 = DotsLimit
                                       THEN printed \cup {"Still building"}
                                       ELSE printed
                       /\ UNCHANGED <<dPc, dExit>>
                  [] OTHER ->
                       /\ DOTS' = dots
                       /\ UNCHANGED <<dPc, dExit, printed>>
     \/ \E code \in AwsErrorCodes :
          /\ Errexit(code)
          /\ UNCHANGED <<BUILD_STATUS, LAST_STATUS, DOTS, polled, printed>>
  /\ UNCHANGED <<script, builds, uiTempDir>>
  /\ UNCHANGED <<taggerVars, mergerVars>>

\* From "done" to the end of the standalone scripts.
AfterLoopStandalone ==
  /\ dPc = "after_loop"
  /\ script # "deploy.sh"
  /\ IF script = "pdf2html/deploy.sh" /\ BUILD_STATUS # "SUCCEEDED"
       THEN /\ Errexit(1)
            /\ printed' = printed \cup {"Cleanup complete", "Deployment failed"}
       ELSE /\ Errexit(0)
            /\ printed' = printed \cup {"success summary"}
  /\ UNCHANGED <<script, builds, BUILD_STATUS, LAST_STATUS, DOTS, polled, uiTempDir>>
  /\ UNCHANGED <<taggerVars, mergerVars>>

\* deploy.sh from "done" to the end of deploy_backend_solution: the first
\* bucket query has no fallback.
AfterLoopBackend ==
  /\ dPc = "after_loop"
  /\ script = "deploy.sh"
  /\ \/ /\ dPc' = IF builds = 1 THEN "next_step" ELSE "ask_ui"
        /\ printed' = printed \cup {"deployment summary complete"}
        /\ UNCHANGED dExit
     \/ \E code \in AwsErrorCodes :
          /\ Errexit(code)
          /\ UNCHANGED printed
  /\ UNCHANGED <<script, builds, BUILD_STATUS, LAST_STATUS, DOTS, polled, uiTempDir>>
  /\ UNCHANGED <<taggerVars, mergerVars>>

\* show_next_step_options: the other solution, the UI, or finish.
NextStep ==
  /\ dPc = "next_step"
  /\ \E choice \in 1..3 :
       CASE choice = 1 ->
              /\ builds' = 2
              /\ DOTS' = 0
              /\ LAST_STATUS' = ""
              /\ dPc' = "poll"
         [] choice = 2 ->
              /\ dPc' = "ui_clone"
              /\ UNCHANGED <<builds, DOTS, LAST_STATUS>>
         [] OTHER ->
              /\ dPc' = "finish"
              /\ UNCHANGED <<builds, DOTS, LAST_STATUS>>
  /\ UNCHANGED <<script, BUILD_STATUS, polled, printed, uiTempDir, dExit>>
  /\ UNCHANGED <<taggerVars, mergerVars>>

\* "Would you like to deploy the Frontend UI? (y/n)"
AskUi ==
  /\ dPc = "ask_ui"
  /\ \E yes \in BOOLEAN : dPc' = IF yes THEN "ui_clone" ELSE "finish"
  /\ UNCHANGED <<script, builds, BUILD_STATUS, LAST_STATUS, DOTS, polled, printed,
                 uiTempDir, dExit>>
  /\ UNCHANGED <<taggerVars, mergerVars>>

\* deploy_ui is called as a plain command: its "return 1" ends the script.
\* git clone into $UI_TEMP_DIR.
UiClone ==
  /\ dPc = "ui_clone"
  /\ \/ /\ uiTempDir' = TRUE
        /\ dPc' = "ui_cd"
        /\ UNCHANGED <<dExit, printed>>
     \/ /\ Errexit(1)
        /\ printed' = printed \cup {"Failed to clone UI repository"}
        /\ UNCHANGED uiTempDir
  /\ UNCHANGED <<script, builds, BUILD_STATUS, LAST_STATUS, DOTS, polled>>
  /\ UNCHANGED <<taggerVars, mergerVars>>

\* cd "$UI_TEMP_DIR" || { ...; return 1; }
UiEnter ==
  /\ dPc = "ui_cd"
  /\ \/ /\ dPc' = "ui_script"
        /\ UNCHANGED <<dExit, printed>>
     \/ /\ Errexit(1)
        /\ printed' = printed \cup {"Failed to change to UI directory"}
  /\ UNCHANGED uiTempDir
  /\ UNCHANGED <<script, builds, BUILD_STATUS, LAST_STATUS, DOTS, polled>>
  /\ UNCHANGED <<taggerVars, mergerVars>>

\* The check for the UI's deploy.sh, and its run.
UiDeploy ==
  /\ dPc = "ui_script"
  /\ \E found \in BOOLEAN, deployed \in BOOLEAN :
       IF ~found
         THEN /\ printed' = printed \cup {"UI deployment script not found"}
              /\ uiTempDir' = FALSE
              /\ Errexit(1)
         ELSE IF deployed
           THEN /\ printed' = printed \cup {"UI deployment completed successfully"}
                /\ dPc' = "ui_url"
                /\ UNCHANGED <<uiTempDir, dExit>>
           ELSE /\ printed' = printed \cup {"UI deployment failed"}
                /\ uiTempDir' = FALSE
                /\ Errexit(1)
  /\ UNCHANGED <<script, builds, BUILD_STATUS, LAST_STATUS, DOTS, polled>>
  /\ UNCHANGED <<taggerVars, mergerVars>>

\* AMPLIFY_URL=$(aws cloudformation describe-stacks ...), then the cleanup.
UiReadUrl ==
  /\ dPc = "ui_url"
  /\ \/ /\ uiTempDir' = FALSE
        /\ dPc' = "finish"
        /\ UNCHANGED dExit
     \/ \E code \in AwsErrorCodes :
          /\ Errexit(code)
          /\ UNCHANGED uiTempDir
  /\ UNCHANGED <<script, builds, BUILD_STATUS, LAST_STATUS, DOTS, polled, printed>>
  /\ UNCHANGED <<taggerVars, mergerVars>>

\* The final summary of deploy.sh and "exit 0".
Finish ==
  /\ dPc = "finish"
  /\ printed' = printed \cup {"success summary"}
  /\ Errexit(0)
  /\ UNCHANGED <<script, builds, BUILD_STATUS, LAST_STATUS, DOTS, polled, uiTempDir>>
  /\ UNCHANGED <<taggerVars, mergerVars>>

NextDeploy ==
  \/ Poll
  \/ AfterLoopStandalone
  \/ AfterLoopBackend
  \/ NextStep
  \/ AskUi
  \/ UiClone
  \/ UiEnter
  \/ UiDeploy
  \/ UiReadUrl
  \/ Finish

SpecDeploy == InitDeploy /\ [][NextDeploy]_vars

TypeOK ==
  /\ pc \in {"read_manifest", "image_loop", "image_wait", "image_sleep",
             "modify_download", "modify_traverse", "modify_join",
             "modify_upload", "after_modify", "returned", "exited"}
  /\ exitCode \in {Running, <<0>>, <<1>>}
  /\ uploads \in 0..1

\* ================================================================== claims
\* What the input document holds, read off the stored objects themselves.
FigureObjs == {n \in ObjNums : input[n] \in {FigureNode, FigureNodeWithAlt}}
LinkObjs == {n \in ObjNums : input[n] = LinkNode}

\* The traversal of modifyPDF has run in this state.
TaggingDone ==
  /\ pc \in {"modify_join", "modify_upload", "after_modify", "returned", "exited"}
  /\ "download" \notin failures
  /\ exitCode # <<1>>

HasText(node, text) ==
  /\ "Alt" \in DOMAIN node.entries /\ node.entries["Alt"] = text
  /\ "Contents" \in DOMAIN node.entries /\ node.entries["Contents"] = text

CompletionReported == "PDF modification complete" \in log

\* C1: the document is saved and uploaded only after every link request of the
\* traversal has succeeded and its text is on its annotation; once any link
\* request has failed there is never a save, an upload or a published document.
C1_LinkAtomicity ==
  /\ \A k \in 1..Len(saved) : \A n \in LinkObjs :
       /\ n \in DOMAIN linkStatus /\ linkStatus[n] = "applied"
       /\ HasText(saved[k][n], LinkText)
  /\ uploads > 0 => Len(saved) > 0
  /\ \A k \in 1..Len(published) : \A n \in LinkObjs : HasText(published[k][n], LinkText)
  /\ "link" \in failures => saved = <<>> /\ uploads = 0 /\ published = <<>>

\* C1 witness: a finished run in which one link request failed after another
\* had already been applied to the graph, and nothing was uploaded.
C1_Witness ==
  /\ pc = "exited"
  /\ \E n, m \in DOMAIN linkStatus :
       /\ linkStatus[n] = "failed" /\ linkStatus[m] = "applied"
       /\ HasText(graph[m], LinkText)
  /\ uploads = 0

\* The value stored under key in a result map, and whether it is stored.
Stored(obj, key, value) ==
  \E j \in 1..Len(obj) : obj[j][1] = key /\ obj[j][2] = value

NoEntry(obj, key) == \A j \in 1..Len(obj) : obj[j][1] # key

\* The fallback loop keeps every entry generation stored and gives the default
\* text to exactly the manifest ids that had none.
FallbackKeepsAndFills ==
  pc # "read_manifest" /\ pc # "image_loop" /\ pc # "image_wait" /\ pc # "image_sleep"
    /\ exitCode # <<1>> =>
      /\ \A j \in 1..Len(generated) : Stored(resolved, generated[j][1], generated[j][2])
      /\ \A r \in 1..Len(imageObjects) :
           NoEntry(generated, Str(imageObjects[r]))
             => Stored(resolved, Str(imageObjects[r]), defaultText)

\* C2: an empty string stored for a reference survives the fallback loop and
\* its figure node ends with empty Alt and Contents; a reference with no entry
\* gets the default text and its figure node ends with the default text.
C2_EmptyVersusMissing ==
  /\ FallbackKeepsAndFills
  /\ TaggingDone =>
       \A r \in 1..Len(imageObjects) :
         LET id == imageObjects[r] IN
         id \in FigureObjs =>
           /\ Stored(generated, Str(id), EmptyText) => HasText(graph[id], EmptyText)
           /\ NoEntry(generated, Str(id)) => HasText(graph[id], defaultText)

\* C3: after tagging, a figure node whose id maps to the artifact sentinel has
\* S = Artifact and neither Alt nor Contents.
C3_ArtifactExcludesText ==
  TaggingDone =>
    \A n \in FigureObjs :
      Stored(resolved, Str(n), ArtifactText) =>
        /\ graph[n].entries["S"] = "Artifact"
        /\ "Alt" \notin DOMAIN graph[n].entries
        /\ "Contents" \notin DOMAIN graph[n].entries

\* A node the tagging may write: a figure whose object number equals the
\* number a result-map key denotes, or a link annotation with a URL.
MayBeTagged(n) ==
  \/ n \in FigureObjs /\ \E j \in 1..Len(resolved) : ToNumber(resolved[j][1]) = n
  \/ n \in LinkObjs

\* C4: every object that is neither a figure matching a result-map key nor a
\* link annotation with a URL is, at every step and in every saved or
\* published document, exactly what the input held.
C4_UntouchedNodes ==
  \A n \in ObjNums :
    ~MayBeTagged(n) =>
      /\ graph[n] = input[n]
      /\ \A k \in 1..Len(saved) : saved[k][n] = input[n]
      /\ \A k \in 1..Len(published) : published[k][n] = input[n]

\* C4 witness: a published run that tagged one object and left a dictionary
\* that carries entries of its own (an unmatched figure or a paragraph) alone.
C4_Witness ==
  /\ pc = "exited" /\ Len(published) = 1
  /\ \E n, m \in ObjNums :
       /\ ~MayBeTagged(n) /\ input[n] \in {FigureNodeWithAlt, ParagraphNode}
       /\ published[1][m] # input[m]

\* C5: the graph in memory and every saved or published document hold exactly
\* the objects of the input, each of the kind (dictionary or not) it had.
C5_GraphIdentity ==
  /\ DOMAIN graph = DOMAIN input
  /\ \A n \in DOMAIN graph : graph[n].isDict = input[n].isDict
  /\ \A k \in 1..Len(saved) : DOMAIN saved[k] = DOMAIN input
  /\ \A k \in 1..Len(published) : DOMAIN published[k] = DOMAIN input

\* C5 witness: a published document in which a figure and a link were tagged.
C5_Witness ==
  /\ Len(published) = 1
  /\ \E n \in FigureObjs : published[1][n] # input[n]
  /\ \E n \in LinkObjs : published[1][n] # input[n]

\* The first loop is over in this state.
GenerationOver ==
  /\ pc \notin {"read_manifest", "image_loop", "image_wait", "image_sleep"}
  /\ exitCode # <<1>>

\* C6: a failed image reference does not stop the loop (every reference is
\* attempted), it has no entry in the result map until the fallback loop
\* stores the default text for it, and a run whose only failures are image
\* failures ends with the document published and exit code 0.
C6_ImageFailureNonFatal ==
  /\ GenerationOver =>
       \A r \in 1..Len(imageObjects) : r \in imgFailed \/ imageObjects[r] \in Range(issued)
  /\ ~GenerationOver =>
       \A r \in imgFailed : NoEntry(combinedResults, Str(imageObjects[r]))
  /\ GenerationOver =>
       \A r \in imgFailed : Stored(resolved, Str(imageObjects[r]), defaultText)
  /\ "image" \in failures => exitCode # <<1>>
  /\ pc = "exited" /\ failures = {"image"} => Len(published) = 1 /\ exitCode = <<0>>

\* C7: once a link request has failed the run never reports that the PDF
\* modification completed, and it ends with a non-zero exit code.
C7_LinkFailureFatal ==
  "link" \in failures =>
    /\ ~CompletionReported
    /\ pc = "exited" => exitCode = <<1>>

\* C8: once the download of the document, the write of the output or its
\* upload has failed the run never reports completion, and it ends with a
\* non-zero exit code.
C8_StorageFailureFatal ==
  failures \cap {"download", "write", "upload"} # {} =>
    /\ ~CompletionReported
    /\ pc = "exited" => exitCode = <<1>>

\* C9: when the run has ended no local scratch file is left.
C9_ScratchCleanup == pc = "exited" => files = {}

\* Position of a reference id in the manifest.
ManifestPosition(id) == CHOOSE r \in 1..Len(dbRows) : dbRows[r] = id

\* C10: at most one image request is outstanding, no reference is requested
\* twice, and the requests follow the order of the manifest rows.
C10_SequentialGeneration ==
  /\ Cardinality(imgPending) <= 1
  /\ \A a, b \in 1..Len(issued) :
       a < b => /\ issued[a] # issued[b]
                /\ ManifestPosition(issued[a]) < ManifestPosition(issued[b])
  /\ \A a \in 1..Len(issued) : issued[a] \in Range(dbRows)

\* C10 witness: two requests were sent, for a manifest whose row order is not
\* the numeric order of its ids, and the second is still outstanding.
C10_Witness ==
  /\ Len(issued) = 2 /\ issued[1] > issued[2]
  /\ Cardinality(imgPending) = 1

\* The attempts and the delay steps of the first loop, in the order they ran.
IsLoopStep(e) == e \in {"attempt", "sleep"}
LoopSteps == SelectSeq(timeline, IsLoopStep)

\* C11: the attempts of the generation loop and the delay steps alternate,
\* starting with an attempt: after an attempt, failed or not, exactly one delay
\* step runs before the next attempt starts, and whenever the loop is about to
\* start an attempt the previous one has been followed by its delay.
C11_InterCallDelay ==
  /\ \A j \in 1..Len(LoopSteps) :
       LoopSteps[j] = IF j % 2 = 1 THEN "attempt" ELSE "sleep"
  /\ pc = "image_loop" => Len(LoopSteps) % 2 = 0
  /\ pc \in {"image_wait", "image_sleep"} => Len(LoopSteps) % 2 = 1
  /\ Len(issued) <= Cardinality({j \in 1..Len(LoopSteps) : LoopSteps[j] = "attempt"})

\* C11 witness: the first attempt failed, the delay ran, and the request of
\* the second attempt is outstanding.
C11_Witness ==
  /\ LoopSteps = <<"attempt", "sleep", "attempt">>
  /\ 1 \in imgFailed
  /\ pc = "image_wait" /\ imgPending = {2}

\* The stage a step of the run belongs to: generation, fallback, tagging,
\* join, save, upload.
StageOf(e) ==
  CASE e \in {"attempt", "sleep"} -> 1
    [] e = "fallback" -> 2
    [] e = "traverse" -> 3
    [] e = "join" -> 4
    [] e = "save" -> 5
    [] e = "upload" -> 6

Happened(e) == e \in Range(timeline)

\* What the traversal leaves of the result map handed to modifyPDF.
LeftByTraversal ==
  Traversal([graph |-> input, zipped |-> resolved, requested |-> <<>>], 1).zipped

\* C12: the steps of a run follow the stage order generation, fallback,
\* tagging, join, save, upload. When the fallback loop runs every manifest
\* reference has had its attempt and no request is outstanding; the fallback
\* loop writes nothing before that and the graph is not mutated before the
\* traversal, which comes after the fallback loop; once the traversal has run
\* the result map is what the traversal left of the map handed over, so
\* generation did not write it again; a save or an upload only happens after
\* the traversal.
C12_StageOrdering ==
  /\ \A a, b \in 1..Len(timeline) : a < b => StageOf(timeline[a]) <= StageOf(timeline[b])
  /\ Happened("fallback") =>
       /\ imgPending = {}
       /\ Cardinality({j \in 1..Len(timeline) : timeline[j] = "attempt"}) = Len(imageObjects)
  /\ ~Happened("fallback") =>
       /\ resolved = <<>>
       /\ \A j \in 1..Len(combinedResults) : combinedResults[j][2] \in ImageValues
  /\ ~Happened("traverse") => graph = input /\ linkProcessingPromises = <<>>
  /\ Happened("traverse") => Happened("fallback") /\ combinedResults = LeftByTraversal
  /\ saved # <<>> \/ uploads > 0 \/ published # <<>> => Happened("traverse")

\* C12 witness: a published run with two attempts, one of them failed, whose
\* fallback loop stored the default text and whose traversal changed the graph.
C12_Witness ==
  /\ timeline = <<"attempt", "sleep", "attempt", "sleep", "fallback", "traverse",
                  "join", "save", "upload">>
  /\ imgFailed # {} /\ resolved # generated
  /\ Len(published) = 1 /\ published[1] # input

\* The graph as the traversal leaves it, before any link response.
GraphAfterTraversal ==
  Traversal([graph |-> input, zipped |-> resolved, requested |-> <<>>], 1).graph

Count(seq, x) == Cardinality({j \in 1..Len(seq) : seq[j] = x})

\* C13: once the traversal has run, the request array holds exactly one
\* request for each link annotation with a URL and none for any other object,
\* and all of them are issued in that one step: a link response is only ever
\* applied or failed after the traversal, when every request is out and every
\* figure node already has its final value; the only later change to the graph
\* is the text of an applied link response; the run waits on the join once.
C13_LinkRequestsIssuedWithoutWaiting ==
  /\ Happened("traverse") =>
       /\ \A n \in LinkObjs : Count(linkProcessingPromises, n) = 1
       /\ Range(linkProcessingPromises) = LinkObjs
       /\ DOMAIN linkStatus = LinkObjs
       /\ \A n \in ObjNums :
            graph[n] = IF n \in LinkObjs /\ linkStatus[n] = "applied"
                       THEN ApplyLinkText(GraphAfterTraversal, n, LinkText)[n]
                       ELSE GraphAfterTraversal[n]
  /\ ~Happened("traverse") => DOMAIN linkStatus = {}
  /\ Count(timeline, "traverse") <= 1 /\ Count(timeline, "join") <= 1
  /\ pc \in {"modify_upload", "returned", "exited"} /\ Happened("traverse")
       => Count(timeline, "join") = 1
  /\ Happened("join") => PromiseAll(linkStatus) # "pending"

\* C13 witness: two link annotations were requested in one traversal; the
\* second request was answered first while the first is still outstanding, and
\* the run waits on the join.
C13_Witness ==
  /\ pc = "modify_join" /\ ~Happened("join")
  /\ Len(linkProcessingPromises) = 2
  /\ linkStatus[linkProcessingPromises[1]] = "pending"
  /\ linkStatus[linkProcessingPromises[2]] = "applied"

\* C14: in a second pass with an empty result map over the graph a first pass
\* left, every node stays what the first pass made of it, in memory and in
\* every saved or published document, whatever the generators answer.
C14_IdempotentMatching ==
  /\ resolved = <<>>
  /\ graph = input
  /\ \A k \in 1..Len(saved) : saved[k] = input
  /\ \A k \in 1..Len(published) : published[k] = input

\* The figure half of C14: in the second pass every node that is not a link
\* annotation with a URL stays what the first pass made of it.
C14_FiguresUntouchedBySecondPass ==
  \A n \in ObjNums :
    ~IsLinkWithUrl(input[n]) =>
      /\ graph[n] = input[n]
      /\ \A k \in 1..Len(published) : published[k][n] = input[n]

\* What a figure node's dictionary is after tagging when only the entry whose
\* key is the node's own object number is applied to it.
TaggedByOwnId(n) ==
  IF NoEntry(resolved, Str(n)) THEN input[n].entries
  ELSE IF Get(resolved, Str(n)) = ArtifactText
       THEN DictSet(input[n].entries, "S", "Artifact")
       ELSE DictSet(DictSet(input[n].entries, "Alt", Get(resolved, Str(n))),
                    "Contents", Get(resolved, Str(n)))

\* C15: after tagging, every figure node is what the entry stored under its
\* own object number makes of it (and untouched if there is none), so no entry
\* under any other key was applied to it, and the only entries the traversal
\* took out of the result map are stored under the number of a figure node.
C15_ExactIdMatching ==
  TaggingDone =>
    /\ \A n \in FigureObjs : GraphAfterTraversal[n].entries = TaggedByOwnId(n)
    /\ \A j \in 1..Len(resolved) :
         NoEntry(combinedResults, resolved[j][1])
           => \E n \in FigureObjs : resolved[j][1] = Str(n)

\* The key of a result-map entry was matched to a figure node by the traversal.
MatchedToFigure(key) == \E n \in FigureObjs : LooseEq(key, n)

\* C16: after tagging, the result map holds exactly the entries handed to
\* modifyPDF whose key matched no figure node: every matched entry, artifact
\* or text, was removed, and no other entry was.
C16_DestructiveConsumption ==
  TaggingDone =>
    \A j \in 1..Len(resolved) :
      /\ MatchedToFigure(resolved[j][1]) => NoEntry(combinedResults, resolved[j][1])
      /\ ~MatchedToFigure(resolved[j][1])
           => Stored(combinedResults, resolved[j][1], resolved[j][2])

\* Manifest ids that are the object number of no figure node of the document.
UnmatchedIds == {id \in Range(imageObjects) : id \notin FigureObjs}

\* The node carries what an entry matched to object n says: the artifact
\* structure type, or the entry's text as Alt and Contents.
TaggedFrom(node, n) ==
  \E j \in 1..Len(resolved) :
    /\ LooseEq(resolved[j][1], n)
    /\ IF resolved[j][2] = ArtifactText
       THEN node.entries["S"] = "Artifact"
       ELSE HasText(node, resolved[j][2])

\* C17: a manifest id that matches no figure node does not stop the run. With
\* such an id in the manifest the traversal still tags the figure node of
\* every other manifest reference, and a run with no storage or link failure
\* ends with completion reported, exit code 0 and one published document in
\* which those nodes are tagged.
C17_GracefulDegradation ==
  UnmatchedIds # {} =>
    /\ TaggingDone =>
         /\ \A id \in Range(imageObjects) \ UnmatchedIds : TaggedFrom(graph[id], id)
         /\ ~Happened("join") => pc = "modify_join"
    /\ pc = "exited" /\ failures \subseteq {"image"} =>
         /\ exitCode = <<0>> /\ CompletionReported
         /\ Len(published) = 1
         /\ \A id \in Range(imageObjects) \ UnmatchedIds : TaggedFrom(published[1][id], id)

\* C17 witness: the manifest names an id that is no object of the document and
\* the id of a figure node; the run ended with the figure node tagged in the
\* published document and the unmatched entry still in the result map.
C17_Witness ==
  /\ pc = "exited" /\ Len(published) = 1
  /\ \E id \in UnmatchedIds : id \notin ObjNums /\ ~NoEntry(combinedResults, Str(id))
  /\ \E id \in Range(imageObjects) \ UnmatchedIds : published[1][id] # input[id]

\* A report that a manifest id was matched to no node of the document.
UnmatchedWarning == "Unmatched manifest id"

\* C18: a run that ends after tagging with the entry of an unmatched manifest
\* id still in the result map has reported an integrity warning for it.
C18_IntegritySurfacing ==
  pc = "exited" /\ TaggingDone
    /\ (\E id \in UnmatchedIds : ~NoEntry(combinedResults, Str(id)))
    => UnmatchedWarning \in log

\* C19: the PutObject is sent at most once in a run and at most one document
\* is published; once the upload has failed the failure is reported, nothing
\* is published and the run never stands at the save or the upload again.
C19_PublishNotRetried ==
  /\ uploads <= 1 /\ Count(timeline, "upload") <= 1
  /\ Len(published) <= 1
  /\ "upload" \in failures =>
       /\ "Error processing PDF" \in log
       /\ uploads = 1 /\ published = <<>>
       /\ pc \in {"after_modify", "returned", "exited"}

\* C19 witness: a run that ended after its one upload failed.
C19_Witness ==
  /\ pc = "exited" /\ "upload" \in failures
  /\ uploads = 1 /\ Len(saved) = 1 /\ published = <<>>

\* A report of how many references were described and how many got the
\* default text.
CountsReport == "described and fallback counts"

\* C20: a run that has ended has reported whether it completed or aborted,
\* and has reported the number of references described and the number that
\* got the default text.
C20_RunReport ==
  pc = "exited" =>
    /\ CompletionReported \/ "Error in second ECS task" \in log
    /\ CountsReport \in log

\* Generation ended with "" stored for 5, "a red bicycle" for 7 and nothing
\* for 9.
ScenarioGenerated ==
  /\ imageObjects \in ScenarioManifests
  /\ Happened("fallback")
  /\ {generated[j] : j \in 1..Len(generated)} = {<<Str(5), EmptyText>>, <<Str(7), SomeText>>}

AltIs(node, text) == "Alt" \in DOMAIN node.entries /\ node.entries["Alt"] = text

\* C21: when generation ended with "" for 5, "a red bicycle" for 7 and no
\* result for 9, every published document of the four-figure graph has node 5
\* with empty Alt, node 7 with Alt "a red bicycle", node 9 with the default
\* text and node 11 as the input held it.
C21_EndToEndScenario ==
  ScenarioGenerated =>
    \A k \in 1..Len(published) :
      /\ AltIs(published[k][5], EmptyText)
      /\ AltIs(published[k][7], SomeText)
      /\ AltIs(published[k][9], defaultText)
      /\ published[k][11] = input[11]

\* C21 witness: the scenario's run has ended with its document published,
\* node 11 holding alternative text of its own and node 5 having held some.
C21_Witness ==
  /\ ScenarioGenerated
  /\ pc = "exited" /\ Len(published) = 1
  /\ input[5] = FigureNodeWithAlt /\ input[11] = FigureNodeWithAlt

\* The entry of a node under name, or a mark that it has none.
EntryOf(node, name) ==
  IF name \in DOMAIN node.entries THEN <<node.entries[name]>> ELSE <<>>

\* The engine attached text to object n of document doc: its Alt or its
\* Contents is not what the input held.
TextAttached(doc, n) ==
  \/ EntryOf(doc[n], "Alt") # EntryOf(input[n], "Alt")
  \/ EntryOf(doc[n], "Contents") # EntryOf(input[n], "Contents")

AltEqualsContents(node) ==
  EntryOf(node, "Alt") # <<>> /\ EntryOf(node, "Alt") = EntryOf(node, "Contents")

\* C22: in the graph at every step, and so in every saved and published
\* document, each node whose Alt or Contents the engine wrote has both, with
\* the same value; every link annotation of a saved document is such a node.
C22_AltEqualsContents ==
  /\ \A n \in ObjNums : TextAttached(graph, n) => AltEqualsContents(graph[n])
  /\ \A k \in 1..Len(saved) : \A n \in ObjNums :
       /\ TextAttached(saved[k], n) => AltEqualsContents(saved[k][n])
       /\ n \in LinkObjs => AltEqualsContents(saved[k][n])
  /\ \A k \in 1..Len(published) : \A n \in ObjNums :
       TextAttached(published[k], n) => AltEqualsContents(published[k][n])

\* C22 witness: a saved document in which a figure node that had Alt of its
\* own and a link annotation both carry attached text.
C22_Witness ==
  /\ Len(saved) = 1
  /\ \E n \in FigureObjs : input[n] = FigureNodeWithAlt /\ TextAttached(saved[1], n)
  /\ \E n \in LinkObjs : TextAttached(saved[1], n)

\* The property names of the manifest ids.
ManifestKeys == {Str(imageObjects[r]) : r \in 1..Len(imageObjects)}

\* C25: until tagging starts the result map never holds a key that is not the
\* id of a manifest reference, so processing an answer adds no entry outside
\* the manifest, and the map handed to modifyPDF has exactly the manifest ids
\* as keys.
C25_KeysWithinManifest ==
  /\ ~Happened("traverse") => Keys(combinedResults) \subseteq ManifestKeys
  /\ Happened("fallback") => Keys(resolved) = ManifestKeys

\* C26: once the download of the manifest database, its opening or the
\* image_data query has failed, no image request is ever sent, the graph stays
\* what the input held, nothing is saved, uploaded or published, and the run
\* ends with a non-zero exit code.
C26_ManifestFailureAborts ==
  failures \cap {"manifest_download", "manifest_open", "manifest_query"} # {} =>
    /\ issued = <<>> /\ ~Happened("attempt")
    /\ graph = input
    /\ saved = <<>> /\ uploads = 0 /\ published = <<>>
    /\ pc = "exited" => exitCode = <<1>>

\* The download half of C26: a failed download or opening of the manifest
\* database ends the run with exit code 1 before anything else happened.
C26_DownloadFailureAborts ==
  failures \cap {"manifest_download", "manifest_open"} # {} =>
    /\ pc = "exited" /\ exitCode = <<1>>
    /\ timeline = <<>> /\ graph = input /\ uploads = 0 /\ published = <<>>

Terminated == pc = "exited"

\* No step after the end of the run: nothing is pending that a callback could
\* act on, and no save or upload is under way.
Quiescent ==
  /\ imgPending = {}
  /\ \A n \in DOMAIN linkStatus : linkStatus[n] # "pending"
  /\ ~ENABLED Next

\* C28: when every external call returns or fails, every run eventually
\* terminates, and whenever it has terminated no request is outstanding and no
\* step, in particular no save or upload, can follow.
C28_Termination ==
  /\ <>Terminated
  /\ [](Terminated => Quiescent)

\* C28 witness: a run with two image attempts ended after a link request had
\* failed and another link request was answered later, without any upload.
C28_Witness ==
  /\ Terminated /\ Count(timeline, "attempt") = 2
  /\ \E n, m \in DOMAIN linkStatus : linkStatus[n] = "failed" /\ linkStatus[m] = "applied"
  /\ uploads = 0

\* What the merged document should hold: the FINAL_ document of each listed key,
\* in list order.
Concatenation == [i \in 1..Len(fileNames) |-> ModifiedKey(fileNames[i])]

\* C23: every merged document the merger uploads is the concatenation, in list
\* order, of the FINAL_-prefixed document of each listed key, each once.
C23_MergedIsConcatenation ==
  \A i \in 1..Len(merged) : merged[i] = Concatenation

\* C27: for every chunk key the request lists, the key the tagging task uploads
\* to equals the key the merger derives and downloads.
C27_TaggerKeyIsMergerKey ==
  \A i \in 1..Len(modifiedPdfKeys) :
    modifiedPdfKeys[i] = TaggerUploadKey(fileNames[i])

\* C29: a failure of download, merge or upload returns "Failed to merge PDFs."
\* and no merged document is uploaded; the success message is returned only
\* after the upload; no list or an empty list returns "No files to merge."
\* without any storage access.
C29_MergerOutcomes ==
  /\ mFailures # {} => mResult = <<"Failed to merge PDFs.">> /\ merged = <<>>
  /\ mResult = <<"PDFs merged successfully.">> => Len(merged) = 1 /\ mFailures = {}
  /\ (fileNames = Null \/ fileNames = <<>>) /\ mPc # "start"
       => mResult = <<"No files to merge.">> /\ s3Calls = 0 /\ merged = <<>>
  /\ mResult = <<"No files to merge.">> => fileNames = Null \/ fileNames = <<>>

\* The upload of a merged file failed after every download and the merge succeeded.
C29_Witness ==
  /\ "upload" \in mFailures
  /\ mergedFile # <<>>
  /\ mResult = <<"Failed to merge PDFs.">>

\* C24: whenever deploy_ui has returned or the script has exited, the temporary
\* directory of the UI repository does not exist.
C24_TempDirRemoved ==
  dPc \in {"finish", "exited"} => ~uiTempDir

FiveStatuses == {"SUCCEEDED", "FAILED", "FAULT", "STOPPED", "TIMED_OUT"}
FailedStatuses == FiveStatuses \ {"SUCCEEDED"}
FailedPolled == \E b \in 1..2 : polled[b] \cap FailedStatuses # {}
SuccessSummary == "success summary" \in printed

====
